---- MODULE Spec2Model ----
(***************************************************************************)
(* Leave-request lifecycle and balance ledger of the Leave Management      *)
(* System: the Express handlers of controllers/leaveController.js, the     *)
(* model calls of models/leaveModel.js and the PostgreSQL trigger,         *)
(* constraints and functions of database/03_constraints_and_functions.sql. *)
(*                                                                         *)
(* A handler is a sequence of awaited database calls; every awaited call   *)
(* is one atomic step, and the steps of concurrently running handlers      *)
(* interleave.  An INSERT is two steps, the BEFORE INSERT trigger (which   *)
(* reads the committed rows only) and the commit that makes the row        *)
(* visible; a stored function runs in one transaction under row locks and  *)
(* is one step.  A step that sends a response leaves it in `response'      *)
(* until it is delivered, and the number of requests and function calls    *)
(* received is bounded by MaxCalls.                                        *)
(*                                                                         *)
(* Two further specifications share the variables.  DateSpec applies the   *)
(* two business-day counters of the repository to drawn dates and server   *)
(* clocks.  LockSpec takes the writes of the database lock by lock, from a *)
(* database with two pending requests, and LockLive adds the fairness of   *)
(* the database sessions.                                                  *)
(***************************************************************************)
EXTENDS Integers, Sequences, FiniteSets, TLC

\* ------------------------------------------------------------------ bounds
NumEmployees == 2
NumProcs == 2
MaxRequests == 2
MaxBalance == 2
MaxDate == 4
MaxLen == 2
MaxCalls == 4
Today == 2

Employees == 1..NumEmployees
Procs == 1..NumProcs
\* Calendar days are numbered; day 1 is a Wednesday, so day 4 is a Saturday.
Dates == 1..MaxDate
\* An id that names no row of employees.
NoSuchEmployee == NumEmployees + 1
\* undefined / null / a missing body field (falsy in JavaScript).
Absent == 0
\* A string that new Date() cannot parse.
BadDate == 0 - 1
NoType == "none"
NoStatus == "none"
\* comments IS NULL
NoComment == "null"

\* ------------------------------------------------------------- dateUtils
\* Date.prototype.getDay(): 0 = Sunday .. 6 = Saturday, read on a server whose
\* clock is at or east of UTC (localDay covers the others).
getDay(date) == (date + 2) % 7

isValidDate(dateString) == dateString \in Dates

RECURSIVE CountBusinessDays(_, _)
CountBusinessDays(date, end) ==
    IF date > end THEN 0
    ELSE (IF getDay(date) # 0 /\ getDay(date) # 6 THEN 1 ELSE 0)
         + CountBusinessDays(date + 1, end)

calculateBusinessDays(startDate, endDate) == CountBusinessDays(startDate, endDate)

\* ------------------------------------------- the two business-day counters
\* Calendar days 1..MaxCalDate are January 1 (a Wednesday) to January 9.
MaxCalDate == 9
CalDates == 1..MaxCalDate

\* Hours between the clock of the server and UTC (TZ of the Node process).
UtcOffsets == {0 - 5, 0, 5}

\* new Date("YYYY-MM-DD") is midnight UTC of that day: west of UTC its local
\* calendar day, the one getDay() reads, is the day before.
localDay(date, utcOffset) == IF utcOffset < 0 THEN date - 1 ELSE date

\* dateUtils.calculateBusinessDays on a server utcOffset hours from UTC: the
\* loop runs once for each day start..end and tests the local weekday.
RECURSIVE CountLocalBusinessDays(_, _, _)
CountLocalBusinessDays(date, end, utcOffset) ==
    IF date > end THEN 0
    ELSE (IF getDay(localDay(date, utcOffset)) # 0
             /\ getDay(localDay(date, utcOffset)) # 6 THEN 1 ELSE 0)
         + CountLocalBusinessDays(date + 1, end, utcOffset)

\* Monday to Friday
BUSINESS_DAYS == 1..5

\* The fixed holidays that fall on the calendar days: January 1.
FIXED_HOLIDAYS == {1}

isHoliday(date) == date \in FIXED_HOLIDAYS

\* calculateBusinessDays of the validation module: UTC weekdays, and holidays
\* left out when excludeHolidays (default true).
RECURSIVE CountUTCBusinessDays(_, _, _)
CountUTCBusinessDays(current, end, excludeHolidays) ==
    IF current > end THEN 0
    ELSE (IF getDay(current) \in BUSINESS_DAYS
             /\ (~excludeHolidays \/ ~isHoliday(current)) THEN 1 ELSE 0)
         + CountUTCBusinessDays(current + 1, end, excludeHolidays)

VARIABLES
    leave_balance,        \* employees.leave_balance, by employee id
    leave_requests,       \* rows of leave_requests; the id is the position
    leave_balance_audit,  \* rows of leave_balance_audit, in insertion order
    handler,              \* the request each handler slot is serving
    response,             \* the response sent by the last step, if it sent one
    initial_balance,      \* history: leave_balance at the start
    calls,                \* number of requests and function calls received
    tx,                   \* the statement each database session is running
    calc                  \* a business-day count: its arguments and its result

vars == <<leave_balance, leave_requests, leave_balance_audit, handler, response,
          initial_balance, calls, tx, calc>>
db == <<leave_balance, leave_requests, leave_balance_audit>>

\* A handler slot that serves no request.
Idle ==
    [ op |-> "idle", pc |-> "idle",
      id |-> Absent, employee_id |-> Absent,
      start_date |-> Absent, end_date |-> Absent, type |-> NoType,
      status |-> NoStatus, approved_by |-> Absent,
      l_employee_id |-> Absent, l_days |-> 0,
      u_start |-> Absent, u_end |-> Absent, u_type |-> NoType, newDays |-> 0 ]

NoResponse ==
    [ op |-> "none", kind |-> "none", id |-> Absent, employee_id |-> Absent,
      start_date |-> Absent, end_date |-> Absent, current_status |-> NoStatus,
      current_balance |-> 0, requested_days |-> 0 ]

\* The response to the request that handler record h serves: the operation,
\* the id and the dates of the request, and the outcome.
Response(h, kind) ==
    [ NoResponse EXCEPT !.op = h.op, !.kind = kind, !.id = h.id,
                        !.employee_id = h.employee_id,
                        !.start_date = h.start_date, !.end_date = h.end_date ]

\* No response is on its way to a client: the next step may run.
Ready == response = NoResponse

\* Handler p awaits its next database call.
Await(p, h) ==
    /\ handler' = [handler EXCEPT ![p] = h]
    /\ response' = NoResponse

\* Handler p sends its response and is free again.
Send(p, r) ==
    /\ handler' = [handler EXCEPT ![p] = Idle]
    /\ response' = r

\* Slot p takes the next incoming request (slots are taken in order).
Free(p) ==
    /\ Ready
    /\ handler[p].pc = "idle"
    /\ \A q \in Procs : q < p => handler[q].pc # "idle"

RequestIds == 1..Len(leave_requests)
Active == {"pending", "approved"}

\* employeeModel.getById: the row exists.
employeeExists(id) == id \in Employees

\* A balance read that returns the balance the employee started with.
getLeaveBalanceAtStart(employee_id) == initial_balance[employee_id]

\* employeeModel.getLeaveBalance(...).data.remaining_leave
getLeaveBalance(employee_id) == leave_balance[employee_id]

\* CHECK (leave_balance >= 0)
employees_leave_balance_positive(balance) == balance >= 0

\* CHECK (start_date <= end_date)
leave_requests_valid_date_range(row) == row.start_date <= row.end_date

\* ------------------------------------------------------------ leaveModel
\* The overlap query with its status filter narrowed to approved requests.
checkOverlappingApproved(employee_id, start_date, end_date, excludeId) ==
    { i \in RequestIds :
        /\ leave_requests[i].employee_id = employee_id
        /\ leave_requests[i].status = "approved"
        /\ (leave_requests[i].start_date <= end_date
            \/ leave_requests[i].end_date >= start_date)
        /\ (excludeId # Absent => i # excludeId) }

\* An overlap query without the filter on the status.
checkOverlappingAnyStatus(employee_id, start_date, end_date, excludeId) ==
    { i \in RequestIds :
        /\ leave_requests[i].employee_id = employee_id
        /\ (leave_requests[i].start_date <= end_date
            \/ leave_requests[i].end_date >= start_date)
        /\ (excludeId # Absent => i # excludeId) }

\* An overlap query without the filter on the employee.
checkOverlappingAllEmployees(employee_id, start_date, end_date, excludeId) ==
    { i \in RequestIds :
        /\ leave_requests[i].status \in Active
        /\ (leave_requests[i].start_date <= end_date
            \/ leave_requests[i].end_date >= start_date)
        /\ (excludeId # Absent => i # excludeId) }

\* The PostgREST filter or(start_date.lte.<end>,end_date.gte.<start>) is a
\* disjunction of its two conditions.
checkOverlappingLeave(employee_id, start_date, end_date, excludeId) ==
    { i \in RequestIds :
        /\ leave_requests[i].employee_id = employee_id
        /\ leave_requests[i].status \in Active
        /\ (leave_requests[i].start_date <= end_date
            \/ leave_requests[i].end_date >= start_date)
        /\ (excludeId # Absent => i # excludeId) }

\* The trigger check_overlapping_leaves, BEFORE INSERT OR UPDATE, on row NEW
\* with id newId (Absent on insert: COALESCE(NEW.id, 0) names no row).
prevent_overlapping_leaves(new, newId) ==
    \E i \in RequestIds :
        /\ leave_requests[i].employee_id = new.employee_id
        /\ i # newId
        /\ leave_requests[i].status \in Active
        /\ new.start_date <= leave_requests[i].end_date
        /\ new.end_date >= leave_requests[i].start_date

\* An INSERT or UPDATE of leave_requests raises: the trigger or a CHECK refuses NEW.
StatementRaises(new, newId) ==
    \/ prevent_overlapping_leaves(new, newId)
    \/ ~leave_requests_valid_date_range(new)

\* Number of rows that handlers are about to insert.
Inserting == Cardinality({p \in Procs : handler[p].op = "applyForLeave"})

\* No count has been made.
NoCalc ==
    [ fn |-> "none", startDate |-> 0, endDate |-> 0, utcOffset |-> 0,
      excludeHolidays |-> FALSE, businessDays |-> 0 ]

\* A database session that runs nothing.
NoTx == [ op |-> "none", pc |-> "idle", id |-> 0, by |-> 0, status |-> NoStatus ]

Init ==
    /\ \E b \in 1..MaxBalance :
          /\ employees_leave_balance_positive(b)
          /\ leave_balance = [e \in Employees |-> b]
    /\ initial_balance = leave_balance
    /\ leave_requests = << >>
    /\ leave_balance_audit = << >>
    /\ handler = [p \in Procs |-> Idle]
    /\ response = NoResponse
    /\ calls = 0
    /\ tx = [s \in Procs |-> NoTx]
    /\ calc = NoCalc

\* ------------------------------------------------- applyForLeave (POST /apply)
\* Request bodies: employee 1 asks for every range of at most MaxLen days that
\* starts today or later, the manager (employee NumEmployees) for today only;
\* and one body for each way validation fails.
ApplyBodies ==
    { b \in [ employee_id : {1}, start_date : Dates,
              end_date : Dates, type : {"annual"} ] :
        /\ b.start_date >= Today /\ b.start_date <= b.end_date
        /\ b.end_date - b.start_date < MaxLen }
    \cup { [ employee_id |-> NumEmployees, start_date |-> Today, end_date |-> Today, type |-> "annual" ],
           [ employee_id |-> NoSuchEmployee, start_date |-> Today, end_date |-> Today, type |-> "annual" ],
           [ employee_id |-> 1, start_date |-> Today, end_date |-> Today - 1, type |-> "annual" ],
           [ employee_id |-> 1, start_date |-> Today - 1, end_date |-> Today, type |-> "annual" ],
           [ employee_id |-> Absent, start_date |-> Today, end_date |-> Today, type |-> "annual" ],
           [ employee_id |-> 1, start_date |-> BadDate, end_date |-> Today, type |-> "annual" ],
           [ employee_id |-> 1, start_date |-> Today, end_date |-> Today, type |-> NoType ] }

\* Steps 1 to 3: the body is validated, the employee looked up, the business
\* days counted and the balance read and compared.  Validation and the employee
\* lookup read nothing that changes, so they are taken together with the
\* balance read, the first read of changing data.
applyForLeave(p, body) ==
    /\ Free(p)
    /\ calls < MaxCalls
    /\ calls' = calls + 1
    /\ Len(leave_requests) + Inserting < MaxRequests
    /\ LET h == [ Idle EXCEPT !.op = "applyForLeave",
                              !.employee_id = body.employee_id,
                              !.start_date = body.start_date,
                              !.end_date = body.end_date,
                              !.type = body.type ]
       IN IF \/ body.employee_id = Absent \/ body.start_date = Absent
             \/ body.end_date = Absent \/ body.type = NoType
            THEN Send(p, Response(h, "MissingField"))
          ELSE IF ~isValidDate(body.start_date) \/ ~isValidDate(body.end_date)
            THEN Send(p, Response(h, "InvalidDate"))
          ELSE IF body.start_date > body.end_date
            THEN Send(p, Response(h, "DateOrderInvalid"))
          ELSE IF body.start_date < Today
            THEN Send(p, Response(h, "PastDate"))
          ELSE IF ~employeeExists(body.employee_id)
            THEN Send(p, Response(h, "EmployeeNotFound"))
          ELSE LET requestedDays == calculateBusinessDays(body.start_date, body.end_date)
                   currentBalance == getLeaveBalance(body.employee_id)
               IN IF requestedDays > currentBalance
                    THEN Send(p, [Response(h, "InsufficientBalance") EXCEPT
                                    !.current_balance = currentBalance,
                                    !.requested_days = requestedDays])
                  ELSE Await(p, [h EXCEPT !.pc = "overlap", !.newDays = requestedDays])
    /\ UNCHANGED <<db, initial_balance, tx, calc>>

\* applyOverlap that stores the submitted request before it answers the
\* overlap error.
applyOverlapPersisting(p) ==
    /\ Ready
    /\ handler[p].op = "applyForLeave"
    /\ handler[p].pc = "overlap"
    /\ LET h == handler[p]
       IN IF checkOverlappingLeave(h.employee_id, h.start_date, h.end_date, Absent) # {}
            THEN /\ Send(p, Response(h, "OverlapConflict"))
                 /\ leave_requests' = Append(leave_requests,
                        [ employee_id |-> h.employee_id, start_date |-> h.start_date,
                          end_date |-> h.end_date, type |-> h.type,
                          status |-> "pending", approved_by |-> Absent,
                          days_requested |-> h.newDays, comments |-> NoComment ])
            ELSE /\ Await(p, [h EXCEPT !.pc = "insert"])
                 /\ UNCHANGED leave_requests
    /\ UNCHANGED <<leave_balance, leave_balance_audit, initial_balance, tx, calc, calls>>

\* Step 4: the overlap query.
applyOverlap(p) ==
    /\ Ready
    /\ handler[p].op = "applyForLeave"
    /\ handler[p].pc = "overlap"
    /\ LET h == handler[p]
       IN IF checkOverlappingLeave(h.employee_id, h.start_date, h.end_date, Absent) # {}
            THEN Send(p, Response(h, "OverlapConflict"))
          ELSE Await(p, [h EXCEPT !.pc = "insert"])
    /\ UNCHANGED <<db, initial_balance, tx, calc, calls>>

\* The row of step 5.
leaveData(h) ==
    [ employee_id |-> h.employee_id, start_date |-> h.start_date,
      end_date |-> h.end_date, type |-> h.type, status |-> "pending",
      days_requested |-> h.newDays, approved_by |-> Absent,
      comments |-> NoComment ]

\* Step 5, leaveModel.applyForLeave: the INSERT runs its trigger and constraints.
applyInsert(p) ==
    /\ Ready
    /\ handler[p].op = "applyForLeave"
    /\ handler[p].pc = "insert"
    /\ LET h == handler[p]
       IN IF StatementRaises(leaveData(h), Absent)
            THEN Send(p, Response(h, "PersistenceError"))
          ELSE Await(p, [h EXCEPT !.pc = "commit"])
    /\ UNCHANGED <<db, initial_balance, tx, calc, calls>>

\* A commit that runs the trigger again on the rows committed meanwhile, as an
\* INSERT serialised per employee would.
applyCommitSerialized(p) ==
    /\ Ready
    /\ handler[p].op = "applyForLeave"
    /\ handler[p].pc = "commit"
    /\ IF StatementRaises(leaveData(handler[p]), Absent)
         THEN /\ Send(p, Response(handler[p], "PersistenceError"))
              /\ UNCHANGED leave_requests
         ELSE /\ leave_requests' = Append(leave_requests, leaveData(handler[p]))
              /\ Send(p, [Response(handler[p], "ok") EXCEPT !.id = Len(leave_requests) + 1])
    /\ UNCHANGED <<leave_balance, leave_balance_audit, initial_balance, tx, calc, calls>>

\* The INSERT commits: the row becomes visible to the other transactions.
applyCommit(p) ==
    /\ Ready
    /\ handler[p].op = "applyForLeave"
    /\ handler[p].pc = "commit"
    /\ leave_requests' = Append(leave_requests, leaveData(handler[p]))
    /\ Send(p, [Response(handler[p], "ok") EXCEPT !.id = Len(leave_requests) + 1])
    /\ UNCHANGED <<leave_balance, leave_balance_audit, initial_balance, tx, calc, calls>>

\* ------------------------------------------------ leaveModel.updateLeaveStatus
\* An update that writes the status and leaves approved_by as it was.
updateLeaveStatusNoApprover(leaveId, status, approvedBy) ==
    [leave_requests[leaveId] EXCEPT !.status = status]

\* An update that writes approved_by and leaves the status as it was.
updateLeaveStatusKeepsStatus(leaveId, status, approvedBy) ==
    [leave_requests[leaveId] EXCEPT !.approved_by = approvedBy]

\* The row that UPDATE ... SET status, approved_by WHERE id = leaveId writes.
\* The function has four parameters: a fifth argument (comments) is dropped.
updateLeaveStatus(leaveId, status, approvedBy) ==
    [leave_requests[leaveId] EXCEPT !.status = status, !.approved_by = approvedBy]

\* -------------------------------------------- approveRejectLeave (PUT /:id/approve)
ResolveBodies ==
    [ status : {"approved", "rejected"}, approved_by : {NumEmployees, NoSuchEmployee} ]
    \cup { [ status |-> "approved", approved_by |-> Absent ],
           [ status |-> "cancelled", approved_by |-> NumEmployees ] }

\* A status guard that lets every status through.
StatusNeverChecked(status) == FALSE

\* A cancel guard that also lets rejected requests through.
AnyStatusCancellable(status) == status \notin {"pending", "approved", "rejected"}

\* A pending guard that also lets approved requests through.
NotPendingNorApproved(status) == status \notin {"pending", "approved"}

\* The status guards of approveRejectLeave / modifyLeaveRequest and of
\* cancelLeaveRequest.
NotPending(status) == status # "pending"
NotCancellable(status) == status \notin {"pending", "approved"}

\* approveRejectLeave without the lookup of the approver.
approveRejectLeaveAnyApprover(p, id, body) ==
    /\ Free(p)
    /\ calls < MaxCalls
    /\ calls' = calls + 1
    /\ LET h == [ Idle EXCEPT !.op = "approveRejectLeave", !.id = id,
                              !.status = body.status,
                              !.approved_by = body.approved_by ]
       IN IF body.status = NoStatus \/ body.approved_by = Absent
            THEN Send(p, Response(h, "MissingField"))
          ELSE IF body.status \notin {"approved", "rejected"}
            THEN Send(p, Response(h, "InvalidStatus"))
          ELSE IF id \notin RequestIds
            THEN Send(p, Response(h, "RequestNotFound"))
          ELSE IF NotPending(leave_requests[id].status)
            THEN Send(p, [Response(h, "InvalidTransition") EXCEPT
                            !.current_status = leave_requests[id].status])
          ELSE Await(p, [h EXCEPT !.pc = "update"])
    /\ UNCHANGED <<db, initial_balance, tx, calc>>

\* Validation, step 1 (the request is read, its status checked) and step 2
\* (the approver is looked up).
approveRejectLeave(p, id, body) ==
    /\ Free(p)
    /\ calls < MaxCalls
    /\ calls' = calls + 1
    /\ LET h == [ Idle EXCEPT !.op = "approveRejectLeave", !.id = id,
                              !.status = body.status,
                              !.approved_by = body.approved_by ]
       IN IF body.status = NoStatus \/ body.approved_by = Absent
            THEN Send(p, Response(h, "MissingField"))
          ELSE IF body.status \notin {"approved", "rejected"}
            THEN Send(p, Response(h, "InvalidStatus"))
          ELSE IF id \notin RequestIds
            THEN Send(p, Response(h, "RequestNotFound"))
          ELSE IF NotPending(leave_requests[id].status)
            THEN Send(p, [Response(h, "InvalidTransition") EXCEPT
                            !.current_status = leave_requests[id].status])
          ELSE IF ~employeeExists(body.approved_by)
            THEN Send(p, Response(h, "ResolverNotFound"))
          ELSE Await(p, [h EXCEPT !.pc = "update"])
    /\ UNCHANGED <<db, initial_balance, tx, calc>>

\* Step 3: the status is written.
approveRejectUpdate(p) ==
    /\ Ready
    /\ handler[p].op = "approveRejectLeave"
    /\ handler[p].pc = "update"
    /\ LET h == handler[p]
           new == updateLeaveStatus(h.id, h.status, h.approved_by)
       IN IF StatementRaises(new, h.id)
            THEN /\ Send(p, Response(h, "PersistenceError"))
                 /\ UNCHANGED leave_requests
            ELSE /\ leave_requests' = [leave_requests EXCEPT ![h.id] = new]
                 /\ Send(p, Response(h, "ok"))
    /\ UNCHANGED <<leave_balance, leave_balance_audit, initial_balance, tx, calc, calls>>

\* -------------------------------------------- cancelLeaveRequest (DELETE /:id)
CancelBodies == [ employee_id : {Absent} \cup Employees ]

\* cancelLeaveRequest without the comparison of the caller with the owner.
cancelLeaveRequestAnyone(p, id, body) ==
    /\ Free(p)
    /\ calls < MaxCalls
    /\ calls' = calls + 1
    /\ LET h == [ Idle EXCEPT !.op = "cancelLeaveRequest", !.id = id,
                              !.employee_id = body.employee_id ]
       IN IF id \notin RequestIds
            THEN Send(p, Response(h, "RequestNotFound"))
          ELSE IF NotCancellable(leave_requests[id].status)
            THEN Send(p, [Response(h, "InvalidTransition") EXCEPT
                            !.current_status = leave_requests[id].status])
          ELSE Await(p, [h EXCEPT !.pc = "update", !.employee_id = Absent,
                    !.l_employee_id = leave_requests[id].employee_id])
    /\ UNCHANGED <<db, initial_balance, tx, calc>>

\* Steps 1 to 3: the request is read, the owner and the status checked.
cancelLeaveRequest(p, id, body) ==
    /\ Free(p)
    /\ calls < MaxCalls
    /\ calls' = calls + 1
    /\ LET h == [ Idle EXCEPT !.op = "cancelLeaveRequest", !.id = id,
                              !.employee_id = body.employee_id ]
       IN IF id \notin RequestIds
            THEN Send(p, Response(h, "RequestNotFound"))
          ELSE IF body.employee_id # Absent
                  /\ leave_requests[id].employee_id # body.employee_id
            THEN Send(p, Response(h, "OwnershipMismatch"))
          ELSE IF NotCancellable(leave_requests[id].status)
            THEN Send(p, [Response(h, "InvalidTransition") EXCEPT
                            !.current_status = leave_requests[id].status])
          ELSE Await(p, [h EXCEPT !.pc = "update", !.employee_id = Absent,
                    !.l_employee_id = leave_requests[id].employee_id])
    /\ UNCHANGED <<db, initial_balance, tx, calc>>

\* Step 4: the request is marked rejected, approved_by its owner.
cancelUpdate(p) ==
    /\ Ready
    /\ handler[p].op = "cancelLeaveRequest"
    /\ handler[p].pc = "update"
    /\ LET h == handler[p]
           new == updateLeaveStatus(h.id, "rejected", h.l_employee_id)
       IN IF StatementRaises(new, h.id)
            THEN /\ Send(p, Response(h, "PersistenceError"))
                 /\ UNCHANGED leave_requests
            ELSE /\ leave_requests' = [leave_requests EXCEPT ![h.id] = new]
                 /\ Send(p, Response(h, "ok"))
    /\ UNCHANGED <<leave_balance, leave_balance_audit, initial_balance, tx, calc, calls>>

\* -------------------------------------------- modifyLeaveRequest (PUT /:id/modify)
\* Bodies: both dates (the ranges of ApplyBodies), the end date alone, the type
\* alone, and one body for each way the checks of steps 1 to 5 fail.
ModifyBodies ==
    { b \in [ employee_id : {Absent}, start_date : Dates,
              end_date : Dates, type : {NoType} ] :
        /\ b.start_date >= Today /\ b.start_date <= b.end_date
        /\ b.end_date - b.start_date < MaxLen }
    \cup [ employee_id : {Absent}, start_date : {Absent},
           end_date : Today..MaxDate, type : {NoType} ]
    \cup { [ employee_id |-> Absent, start_date |-> Absent, end_date |-> Absent, type |-> "sick" ],
           [ employee_id |-> NumEmployees, start_date |-> Absent, end_date |-> Absent, type |-> "sick" ],
           [ employee_id |-> Absent, start_date |-> Absent, end_date |-> Absent, type |-> NoType ],
           [ employee_id |-> Absent, start_date |-> BadDate, end_date |-> Absent, type |-> NoType ],
           [ employee_id |-> Absent, start_date |-> Absent, end_date |-> Today - 1, type |-> NoType ],
           [ employee_id |-> Absent, start_date |-> Today - 1, end_date |-> Absent, type |-> NoType ] }

\* Steps 1 to 5: the request is read, its status and owner checked, updatedData
\* built and the final dates validated.  u_start, u_end and u_type are
\* updatedData (Absent: the column is not written); start_date and end_date
\* are finalStartDate and finalEndDate.
modifyLeaveRequest(p, id, body) ==
    /\ Free(p)
    /\ calls < MaxCalls
    /\ calls' = calls + 1
    /\ LET h == [ Idle EXCEPT !.op = "modifyLeaveRequest", !.id = id,
                              !.employee_id = body.employee_id ]
       IN IF id \notin RequestIds
            THEN Send(p, Response(h, "RequestNotFound"))
          ELSE LET currentLeave == leave_requests[id]
                   u_start == IF body.start_date # Absent
                                 /\ body.start_date # currentLeave.start_date
                              THEN body.start_date ELSE Absent
                   u_end == IF body.end_date # Absent
                               /\ body.end_date # currentLeave.end_date
                            THEN body.end_date ELSE Absent
                   u_type == IF body.type # NoType /\ body.type # currentLeave.type
                             THEN body.type ELSE NoType
                   finalStartDate == IF u_start # Absent THEN u_start
                                     ELSE currentLeave.start_date
                   finalEndDate == IF u_end # Absent THEN u_end
                                   ELSE currentLeave.end_date
                   g == [h EXCEPT !.employee_id = Absent,
                                  !.l_employee_id = currentLeave.employee_id,
                                  !.l_days = currentLeave.days_requested,
                                  !.u_start = u_start, !.u_end = u_end,
                                  !.u_type = u_type,
                                  !.start_date = finalStartDate,
                                  !.end_date = finalEndDate]
               IN IF NotPending(currentLeave.status)
                    THEN Send(p, [Response(h, "InvalidTransition") EXCEPT
                                    !.current_status = currentLeave.status])
                  ELSE IF body.employee_id # Absent
                          /\ currentLeave.employee_id # body.employee_id
                    THEN Send(p, Response(h, "OwnershipMismatch"))
                  ELSE IF \/ (u_start # Absent /\ ~isValidDate(u_start))
                          \/ (u_end # Absent /\ ~isValidDate(u_end))
                    THEN Send(p, Response(h, "InvalidDate"))
                  ELSE IF u_start = Absent /\ u_end = Absent /\ u_type = NoType
                    THEN Send(p, Response(h, "NoChanges"))
                  ELSE IF finalStartDate > finalEndDate
                    THEN Send(p, Response(h, "DateOrderInvalid"))
                  ELSE IF finalStartDate < Today
                    THEN Send(p, Response(h, "PastDate"))
                  ELSE IF u_start # Absent \/ u_end # Absent
                    THEN Await(p, [g EXCEPT !.pc = "overlap"])
                  ELSE Await(p, [g EXCEPT !.pc = "update"])
    /\ UNCHANGED <<db, initial_balance, tx, calc>>

\* Step 6: the overlap query, the request itself excluded.
modifyOverlap(p) ==
    /\ Ready
    /\ handler[p].op = "modifyLeaveRequest"
    /\ handler[p].pc = "overlap"
    /\ LET h == handler[p]
       IN IF checkOverlappingLeave(h.l_employee_id, h.start_date, h.end_date, h.id) # {}
            THEN Send(p, Response(h, "OverlapConflict"))
          ELSE Await(p, [h EXCEPT !.pc = "balance"])
    /\ UNCHANGED <<db, initial_balance, tx, calc, calls>>

\* modifyBalance that compares the new days with the balance alone.
modifyBalanceNoHeadroom(p) ==
    /\ Ready
    /\ handler[p].op = "modifyLeaveRequest"
    /\ handler[p].pc = "balance"
    /\ LET h == handler[p]
           newDays == calculateBusinessDays(h.start_date, h.end_date)
           availableBalance == getLeaveBalance(h.l_employee_id)
       IN IF newDays > availableBalance
            THEN Send(p, [Response(h, "InsufficientBalance") EXCEPT
                            !.current_balance = availableBalance,
                            !.requested_days = newDays])
          ELSE Await(p, [h EXCEPT !.pc = "update", !.newDays = newDays])
    /\ UNCHANGED <<db, initial_balance, tx, calc, calls>>

\* Step 7: the new days are counted and compared with the balance plus the
\* days the request held when it was read.
modifyBalance(p) ==
    /\ Ready
    /\ handler[p].op = "modifyLeaveRequest"
    /\ handler[p].pc = "balance"
    /\ LET h == handler[p]
           newDays == calculateBusinessDays(h.start_date, h.end_date)
           availableBalance == getLeaveBalance(h.l_employee_id) + h.l_days
       IN IF newDays > availableBalance
            THEN Send(p, [Response(h, "InsufficientBalance") EXCEPT
                            !.current_balance = availableBalance,
                            !.requested_days = newDays])
          ELSE Await(p, [h EXCEPT !.pc = "update", !.newDays = newDays])
    /\ UNCHANGED <<db, initial_balance, tx, calc, calls>>

\* The row that UPDATE ... SET updatedData WHERE id = h.id writes.
updatedData(h) ==
    LET row == leave_requests[h.id]
    IN [row EXCEPT
          !.start_date = IF h.u_start # Absent THEN h.u_start ELSE row.start_date,
          !.end_date = IF h.u_end # Absent THEN h.u_end ELSE row.end_date,
          !.type = IF h.u_type # NoType THEN h.u_type ELSE row.type,
          !.days_requested = IF h.u_start # Absent \/ h.u_end # Absent
                             THEN h.newDays ELSE row.days_requested]

\* Step 8: the update.
modifyUpdate(p) ==
    /\ Ready
    /\ handler[p].op = "modifyLeaveRequest"
    /\ handler[p].pc = "update"
    /\ LET h == handler[p]
           new == updatedData(h)
       IN IF StatementRaises(new, h.id)
            THEN /\ Send(p, Response(h, "PersistenceError"))
                 /\ UNCHANGED leave_requests
            ELSE /\ leave_requests' = [leave_requests EXCEPT ![h.id] = new]
                 /\ Send(p, Response(h, "ok"))
    /\ UNCHANGED <<leave_balance, leave_balance_audit, initial_balance, tx, calc, calls>>

\* ----------------------------------- stored functions (03_constraints_and_functions.sql)
\* update_leave_balance_atomic without its negative-balance guard and without
\* the CHECK on employees.
update_leave_balance_unguarded(p_employee_id, p_days_to_deduct, p_leave_request_id) ==
    LET current_balance == leave_balance[p_employee_id]
        new_balance == current_balance - p_days_to_deduct
    IN [ raises |-> FALSE,
         leave_balance |-> [leave_balance EXCEPT ![p_employee_id] = new_balance],
         audit |-> [ employee_id |-> p_employee_id,
                     leave_request_id |-> p_leave_request_id,
                     previous_balance |-> current_balance,
                     balance_change |-> 0 - p_days_to_deduct,
                     new_balance |-> new_balance,
                     change_reason |-> "Leave approved" ] ]

\* update_leave_balance_atomic with an audit row whose balance_change is the
\* number of days, without the minus sign.
update_leave_balance_unsigned(p_employee_id, p_days_to_deduct, p_leave_request_id) ==
    LET current_balance == leave_balance[p_employee_id]
        new_balance == current_balance - p_days_to_deduct
    IN [ raises |-> new_balance < 0 \/ ~employees_leave_balance_positive(new_balance),
         leave_balance |-> [leave_balance EXCEPT ![p_employee_id] = new_balance],
         audit |-> [ employee_id |-> p_employee_id,
                     leave_request_id |-> p_leave_request_id,
                     previous_balance |-> current_balance,
                     balance_change |-> p_days_to_deduct,
                     new_balance |-> new_balance,
                     change_reason |-> "Leave approved" ] ]

\* update_leave_balance_atomic with an audit row that records the balance
\* after the change as the previous balance.
update_leave_balance_misaudited(p_employee_id, p_days_to_deduct, p_leave_request_id) ==
    LET current_balance == leave_balance[p_employee_id]
        new_balance == current_balance - p_days_to_deduct
    IN [ raises |-> new_balance < 0 \/ ~employees_leave_balance_positive(new_balance),
         leave_balance |-> [leave_balance EXCEPT ![p_employee_id] = new_balance],
         audit |-> [ employee_id |-> p_employee_id,
                     leave_request_id |-> p_leave_request_id,
                     previous_balance |-> new_balance,
                     balance_change |-> 0 - p_days_to_deduct,
                     new_balance |-> new_balance,
                     change_reason |-> "Leave approved" ] ]

\* What update_leave_balance_atomic does to the employee row it locks: it
\* raises when the new balance is negative (its own IF, and the CHECK on
\* employees behind it), and otherwise writes the balance and one audit row.
update_leave_balance_atomic(p_employee_id, p_days_to_deduct, p_leave_request_id) ==
    LET current_balance == leave_balance[p_employee_id]
        new_balance == current_balance - p_days_to_deduct
    IN [ raises |-> new_balance < 0 \/ ~employees_leave_balance_positive(new_balance),
         leave_balance |-> [leave_balance EXCEPT ![p_employee_id] = new_balance],
         audit |-> [ employee_id |-> p_employee_id,
                     leave_request_id |-> p_leave_request_id,
                     previous_balance |-> current_balance,
                     balance_change |-> 0 - p_days_to_deduct,
                     new_balance |-> new_balance,
                     change_reason |-> "Leave approved" ] ]

\* The response of a stored function: TRUE returned or the exception raised.
Return(op, id, kind) == [ NoResponse EXCEPT !.op = op, !.kind = kind, !.id = id ]

SqlArgs == [ by : {NumEmployees, NoSuchEmployee}, comments : {"manager note"} ]

\* approve_leave_request with the balance update committed on its own: when
\* the status UPDATE raises, the debit and its audit row stay.
approve_leave_request_no_rollback(p_leave_request_id, p_approved_by, p_comments) ==
    LET op == "approve_leave_request"
        id == p_leave_request_id
    IN /\ Ready
       /\ calls < MaxCalls
       /\ calls' = calls + 1
       /\ UNCHANGED <<handler, initial_balance, tx, calc>>
       /\ IF id \notin RequestIds
            THEN response' = Return(op, id, "RequestNotFound") /\ UNCHANGED db
          ELSE IF NotPending(leave_requests[id].status)
            THEN /\ response' = [Return(op, id, "InvalidTransition") EXCEPT
                                    !.current_status = leave_requests[id].status]
                 /\ UNCHANGED db
          ELSE IF ~employeeExists(p_approved_by)
            THEN response' = Return(op, id, "ResolverNotFound") /\ UNCHANGED db
          ELSE LET leave_record == leave_requests[id]
                   u == update_leave_balance_atomic(leave_record.employee_id,
                                                    leave_record.days_requested, id)
                   new == [leave_record EXCEPT !.status = "approved",
                                               !.approved_by = p_approved_by,
                                               !.comments = p_comments]
               IN IF u.raises
                    THEN /\ response' = [Return(op, id, "InsufficientBalance") EXCEPT
                                    !.current_balance = leave_balance[leave_record.employee_id],
                                    !.requested_days = leave_record.days_requested]
                         /\ UNCHANGED db
                  ELSE /\ leave_balance' = u.leave_balance
                       /\ leave_balance_audit' = Append(leave_balance_audit, u.audit)
                       /\ IF StatementRaises(new, id)
                            THEN /\ response' = Return(op, id, "PersistenceError")
                                 /\ UNCHANGED leave_requests
                            ELSE /\ leave_requests' = [leave_requests EXCEPT ![id] = new]
                                 /\ response' = Return(op, id, "ok")

\* approve_leave_request, one transaction holding the row locks of the request
\* and of the employee; an exception rolls all of it back.
approve_leave_request(p_leave_request_id, p_approved_by, p_comments) ==
    LET op == "approve_leave_request"
        id == p_leave_request_id
    IN /\ Ready
       /\ calls < MaxCalls
       /\ calls' = calls + 1
       /\ UNCHANGED <<handler, initial_balance, tx, calc>>
       /\ IF id \notin RequestIds
            THEN response' = Return(op, id, "RequestNotFound") /\ UNCHANGED db
          ELSE IF NotPending(leave_requests[id].status)
            THEN /\ response' = [Return(op, id, "InvalidTransition") EXCEPT
                                    !.current_status = leave_requests[id].status]
                 /\ UNCHANGED db
          ELSE IF ~employeeExists(p_approved_by)
            THEN response' = Return(op, id, "ResolverNotFound") /\ UNCHANGED db
          ELSE LET leave_record == leave_requests[id]
                   u == update_leave_balance_atomic(leave_record.employee_id,
                                                    leave_record.days_requested, id)
                   new == [leave_record EXCEPT !.status = "approved",
                                               !.approved_by = p_approved_by,
                                               !.comments = p_comments]
               IN IF u.raises
                    THEN /\ response' = [Return(op, id, "InsufficientBalance") EXCEPT
                                    !.current_balance = leave_balance[leave_record.employee_id],
                                    !.requested_days = leave_record.days_requested]
                         /\ UNCHANGED db
                  ELSE IF StatementRaises(new, id)
                    THEN response' = Return(op, id, "PersistenceError") /\ UNCHANGED db
                  ELSE /\ leave_balance' = u.leave_balance
                       /\ leave_balance_audit' = Append(leave_balance_audit, u.audit)
                       /\ leave_requests' = [leave_requests EXCEPT ![id] = new]
                       /\ response' = Return(op, id, "ok")

\* reject_leave_request: the same transaction without the balance update.
reject_leave_request(p_leave_request_id, p_rejected_by, p_comments) ==
    LET op == "reject_leave_request"
        id == p_leave_request_id
    IN /\ Ready
       /\ calls < MaxCalls
       /\ calls' = calls + 1
       /\ UNCHANGED <<handler, initial_balance, tx, calc, leave_balance, leave_balance_audit>>
       /\ IF id \notin RequestIds
            THEN response' = Return(op, id, "RequestNotFound") /\ UNCHANGED leave_requests
          ELSE IF NotPending(leave_requests[id].status)
            THEN /\ response' = [Return(op, id, "InvalidTransition") EXCEPT
                                    !.current_status = leave_requests[id].status]
                 /\ UNCHANGED leave_requests
          ELSE IF ~employeeExists(p_rejected_by)
            THEN response' = Return(op, id, "ResolverNotFound") /\ UNCHANGED leave_requests
          ELSE LET new == [leave_requests[id] EXCEPT !.status = "rejected",
                                                     !.approved_by = p_rejected_by,
                                                     !.comments = p_comments]
               IN IF StatementRaises(new, id)
                    THEN /\ response' = Return(op, id, "PersistenceError")
                         /\ UNCHANGED leave_requests
                  ELSE /\ leave_requests' = [leave_requests EXCEPT ![id] = new]
                       /\ response' = Return(op, id, "ok")

\* The response reaches the client.
Deliver ==
    /\ ~Ready
    /\ response' = NoResponse
    /\ UNCHANGED <<db, handler, initial_balance, tx, calc, calls>>

Next ==
    \/ \E p \in Procs, body \in ApplyBodies : applyForLeave(p, body)
    \/ \E p \in Procs : applyOverlap(p)
    \/ \E p \in Procs : applyInsert(p)
    \/ \E p \in Procs : applyCommit(p)
    \/ \E p \in Procs, id \in 1..MaxRequests, body \in ResolveBodies :
            approveRejectLeave(p, id, body)
    \/ \E p \in Procs : approveRejectUpdate(p)
    \/ \E p \in Procs, id \in 1..MaxRequests, body \in CancelBodies :
            cancelLeaveRequest(p, id, body)
    \/ \E p \in Procs : cancelUpdate(p)
    \/ \E p \in Procs, id \in 1..MaxRequests, body \in ModifyBodies :
            modifyLeaveRequest(p, id, body)
    \/ \E p \in Procs : modifyOverlap(p)
    \/ \E p \in Procs : modifyBalance(p)
    \/ \E p \in Procs : modifyUpdate(p)
    \/ \E id \in 1..MaxRequests, a \in SqlArgs :
            approve_leave_request(id, a.by, a.comments)
    \/ \E id \in 1..MaxRequests, a \in SqlArgs :
            reject_leave_request(id, a.by, a.comments)
    \/ Deliver

Spec == Init /\ [][Next]_vars

\* ------------------------------------------------ the business-day counters
\* A pair of valid dates start <= end and a server clock are drawn; one of
\* the counters is applied to them.
DateInit ==
    /\ leave_balance = [e \in Employees |-> MaxBalance]
    /\ initial_balance = leave_balance
    /\ leave_requests = << >>
    /\ leave_balance_audit = << >>
    /\ handler = [p \in Procs |-> Idle]
    /\ response = NoResponse
    /\ calls = 0
    /\ tx = [s \in Procs |-> NoTx]
    /\ \E startDate \in CalDates, endDate \in CalDates, utcOffset \in UtcOffsets :
          /\ startDate <= endDate
          /\ calc = [ NoCalc EXCEPT !.startDate = startDate, !.endDate = endDate,
                                    !.utcOffset = utcOffset ]

\* dateUtils.calculateBusinessDays(startDate, endDate)
dateUtilsCalculateBusinessDays ==
    /\ calc.fn = "none"
    /\ calc' = [ calc EXCEPT
                   !.fn = "dateUtils.calculateBusinessDays",
                   !.businessDays = CountLocalBusinessDays(calc.startDate, calc.endDate,
                                                           calc.utcOffset) ]
    /\ UNCHANGED <<db, handler, response, initial_balance, calls, tx>>

\* calculateBusinessDays(startDate, endDate, excludeHolidays) of the
\* validation module; validateDateRange and validateLeaveRequest call it with
\* the default, getBusinessDayInfo with false and with true.
validationCalculateBusinessDays(excludeHolidays) ==
    /\ calc.fn = "none"
    /\ calc' = [ calc EXCEPT
                   !.fn = "calculateBusinessDays",
                   !.excludeHolidays = excludeHolidays,
                   !.businessDays = CountUTCBusinessDays(calc.startDate, calc.endDate,
                                                         excludeHolidays) ]
    /\ UNCHANGED <<db, handler, response, initial_balance, calls, tx>>

DateNext ==
    \/ dateUtilsCalculateBusinessDays
    \/ \E excludeHolidays \in BOOLEAN : validationCalculateBusinessDays(excludeHolidays)

DateSpec == DateInit /\ [][DateNext]_vars

\* ------------------------------------------------ row locks of the database
\* The writes of the database taken lock by lock.  A session runs one
\* transaction: a stored function, or the single UPDATE of
\* leaveModel.updateLeaveStatus.  Its pc names the lock it takes next:
\*   "request"   the row of leave_requests (SELECT ... FOR UPDATE, or the row
\*               lock of the UPDATE),
\*   "employee"  the employees row of the owner (SELECT ... FOR UPDATE in
\*               update_leave_balance_atomic),
\*   "update"    the key-share lock on the employees row of approved_by that
\*               the foreign key of leave_requests takes when the UPDATE sets
\*               it; the transaction then commits.
\* Locks are held until the transaction ends.
HoldsRequest(s, id) ==
    tx[s].id = id /\ tx[s].pc \in {"employee", "update"}

HoldsEmployee(s, e) ==
    /\ tx[s].op = "approve_leave_request"
    /\ tx[s].pc = "update"
    /\ leave_requests[tx[s].id].employee_id = e

\* The sessions that hold, in a conflicting mode, the lock s takes next.
Blockers(s) ==
    { t \in Procs \ {s} :
        \/ tx[s].pc = "request" /\ HoldsRequest(t, tx[s].id)
        \/ /\ tx[s].pc = "employee"
           /\ HoldsEmployee(t, leave_requests[tx[s].id].employee_id)
        \/ tx[s].pc = "update" /\ HoldsEmployee(t, tx[s].by) }

\* s waits, directly or through at most n sessions, for a lock of t.
RECURSIVE WaitsFor(_, _, _)
WaitsFor(s, t, n) ==
    /\ n > 0
    /\ \/ t \in Blockers(s)
       \/ \E u \in Blockers(s) : WaitsFor(u, t, n - 1)

Deadlocked(s) == WaitsFor(s, s, NumProcs)

\* Two pending requests, one of employee 1 and one of the last employee, as
\* two accepted submissions leave them.
LockInit ==
    /\ \E b \in 1..MaxBalance :
          /\ employees_leave_balance_positive(b)
          /\ leave_balance = [e \in Employees |-> b]
    /\ initial_balance = leave_balance
    /\ leave_requests =
          << [ employee_id |-> 1, start_date |-> Today, end_date |-> Today,
               type |-> "annual", status |-> "pending", approved_by |-> Absent,
               days_requested |-> calculateBusinessDays(Today, Today),
               comments |-> NoComment ],
             [ employee_id |-> NumEmployees, start_date |-> Today, end_date |-> Today,
               type |-> "annual", status |-> "pending", approved_by |-> Absent,
               days_requested |-> calculateBusinessDays(Today, Today),
               comments |-> NoComment ] >>
    /\ leave_balance_audit = << >>
    /\ handler = [p \in Procs |-> Idle]
    /\ response = NoResponse
    /\ calls = 0
    /\ tx = [s \in Procs |-> NoTx]
    /\ calc = NoCalc

\* At most MaxTx transactions are started.
MaxTx == 3

\* The transactions a session can start: the two stored functions, called by
\* an employee or by an id that names none, and the UPDATE of
\* updateLeaveStatus, which the HTTP handlers run after their own checks.
LockCalls ==
    [ op : {"approve_leave_request"}, id : 1..MaxRequests,
      by : Employees \cup {NoSuchEmployee}, status : {"approved"} ]
    \cup [ op : {"reject_leave_request"}, id : 1..MaxRequests,
           by : Employees \cup {NoSuchEmployee}, status : {"rejected"} ]
    \cup [ op : {"updateLeaveStatus"}, id : 1..MaxRequests,
           by : Employees, status : {"approved", "rejected"} ]

\* Session s starts a transaction.
Begin(s, call) ==
    /\ tx[s] = NoTx
    /\ calls < MaxTx
    /\ calls' = calls + 1
    /\ tx' = [tx EXCEPT ![s] = [ op |-> call.op, pc |-> "request", id |-> call.id,
                                 by |-> call.by, status |-> call.status ]]
    /\ UNCHANGED <<db, handler, response, initial_balance, calc>>

\* The transaction of s ends: its locks are released, the caller is answered.
End(s, kind) ==
    /\ tx' = [tx EXCEPT ![s] = NoTx]
    /\ response' = Return(tx[s].op, tx[s].id, kind)

\* The row of the request is locked.  The stored functions then check that it
\* exists and is pending and that the approver exists; the UPDATE of
\* updateLeaveStatus checks nothing.
lockRequest(s) ==
    /\ tx[s].pc = "request"
    /\ Blockers(s) = {}
    /\ LET t == tx[s]
       IN IF t.id \notin RequestIds
            THEN End(s, "RequestNotFound")
          ELSE IF t.op = "updateLeaveStatus"
            THEN tx' = [tx EXCEPT ![s].pc = "update"] /\ UNCHANGED response
          ELSE IF NotPending(leave_requests[t.id].status)
            THEN End(s, "InvalidTransition")
          ELSE IF ~employeeExists(t.by)
            THEN End(s, "ResolverNotFound")
          ELSE IF t.op = "approve_leave_request"
            THEN tx' = [tx EXCEPT ![s].pc = "employee"] /\ UNCHANGED response
          ELSE tx' = [tx EXCEPT ![s].pc = "update"] /\ UNCHANGED response
    /\ UNCHANGED <<db, handler, initial_balance, calls, calc>>

\* update_leave_balance_atomic locks the employees row of the owner and
\* checks the balance; its UPDATE and INSERT become visible at the commit.
lockEmployee(s) ==
    /\ tx[s].pc = "employee"
    /\ Blockers(s) = {}
    /\ LET leave_record == leave_requests[tx[s].id]
           u == update_leave_balance_atomic(leave_record.employee_id,
                                            leave_record.days_requested, tx[s].id)
       IN IF u.raises
            THEN End(s, "InsufficientBalance")
            ELSE tx' = [tx EXCEPT ![s].pc = "update"] /\ UNCHANGED response
    /\ UNCHANGED <<db, handler, initial_balance, calls, calc>>

\* The UPDATE of leave_requests: its trigger and its foreign key on
\* approved_by run, and the transaction commits.
commitUpdate(s) ==
    /\ tx[s].pc = "update"
    /\ Blockers(s) = {}
    /\ LET t == tx[s]
           leave_record == leave_requests[t.id]
           u == update_leave_balance_atomic(leave_record.employee_id,
                                            leave_record.days_requested, t.id)
           new == IF t.op = "updateLeaveStatus"
                    THEN updateLeaveStatus(t.id, t.status, t.by)
                    ELSE [leave_record EXCEPT !.status = t.status,
                                              !.approved_by = t.by,
                                              !.comments = "manager note"]
       IN IF StatementRaises(new, t.id)
            THEN End(s, "PersistenceError") /\ UNCHANGED db
          ELSE /\ leave_requests' = [leave_requests EXCEPT ![t.id] = new]
               /\ IF t.op = "approve_leave_request"
                    THEN /\ leave_balance' = u.leave_balance
                         /\ leave_balance_audit' = Append(leave_balance_audit, u.audit)
                    ELSE UNCHANGED <<leave_balance, leave_balance_audit>>
               /\ End(s, "ok")
    /\ UNCHANGED <<handler, initial_balance, calls, calc>>

\* The statement s waits in is part of a cycle of waiting sessions:
\* PostgreSQL raises deadlock_detected in it, EXCEPTION WHEN OTHERS re-raises
\* it, and the transaction rolls back.
deadlockDetected(s) ==
    /\ tx[s].pc # "idle"
    /\ Deadlocked(s)
    /\ End(s, "DeadlockDetected")
    /\ UNCHANGED <<db, handler, initial_balance, calls, calc>>

LockNext ==
    \/ \E s \in Procs, call \in LockCalls : Begin(s, call)
    \/ \E s \in Procs : lockRequest(s)
    \/ \E s \in Procs : lockEmployee(s)
    \/ \E s \in Procs : commitUpdate(s)
    \/ \E s \in Procs : deadlockDetected(s)

LockSpec == LockInit /\ [][LockNext]_vars

\* Every backend that can run does run, and the deadlock detector runs in
\* every backend that waits longer than deadlock_timeout.
LockLive ==
    /\ LockSpec
    /\ \A s \in Procs :
          /\ WF_vars(lockRequest(s))
          /\ WF_vars(lockEmployee(s))
          /\ WF_vars(commitUpdate(s))
          /\ WF_vars(deadlockDetected(s))

\* ===================================================================== claims

\* Handler p takes its last step, the UPDATE of operation op.
Writes(p, op) ==
    /\ handler[p].op = op
    /\ handler[p].pc = "update"
    /\ handler'[p] = Idle

\* The business days held by the approved requests of employee e.
RECURSIVE ApprovedDaysUpTo(_, _)
ApprovedDaysUpTo(e, n) ==
    IF n = 0 THEN 0
    ELSE ApprovedDaysUpTo(e, n - 1)
         + (IF leave_requests[n].employee_id = e /\ leave_requests[n].status = "approved"
            THEN leave_requests[n].days_requested ELSE 0)

ApprovedDays(e) == ApprovedDaysUpTo(e, Len(leave_requests))

\* C1: in every reachable state every employee's remaining balance is >= 0.
C1_BalanceNeverNegative == \A e \in Employees : leave_balance[e] >= 0

\* C1 witness: an approval that would have overdrawn the balance was refused.
C1_Witness ==
    /\ response.op = "approve_leave_request"
    /\ response.kind = "InsufficientBalance"
    /\ response.requested_days > response.current_balance
    /\ \E e \in Employees : leave_balance[e] = response.current_balance

\* C2: of the resolves that run on one request only the one that finds it
\* pending succeeds: a resolve that commits with success commits on a request
\* that is pending at that moment (the others fail with InvalidTransition).
C2_OneResolveWins ==
    [][ \A p \in Procs :
          (Writes(p, "approveRejectLeave") /\ response'.kind = "ok")
             => leave_requests[handler[p].id].status = "pending" ]_vars

\* C3: when each request of an employee fits the balance the employee had
\* before the approvals, but the requests together exceed it, the approvals that
\* succeed hold together at most that balance.
C3_ApprovalsWithinBalance ==
    \A e \in Employees :
        (\A i \in RequestIds :
            leave_requests[i].employee_id = e
               => leave_requests[i].days_requested <= initial_balance[e])
           => ApprovedDays(e) <= initial_balance[e]
\* Request id is pending and one of its approvals is decided in this step: the
\* UPDATE of approveRejectLeave, or approve_leave_request with a resolver that
\* exists.
Approves(id) ==
    /\ id \in RequestIds
    /\ leave_requests[id].status = "pending"
    /\ \/ \E p \in Procs : /\ Writes(p, "approveRejectLeave")
                            /\ handler[p].status = "approved"
                            /\ handler[p].id = id
       \/ /\ response'.op = "approve_leave_request"
          /\ response'.id = id
          /\ response'.kind # "ResolverNotFound"

\* The closed intervals [s, t] and [row.start_date, row.end_date] of a pending
\* or approved request of employee e intersect.
Intersects(e, s, t) ==
    \E i \in RequestIds :
        /\ leave_requests[i].employee_id = e
        /\ leave_requests[i].status \in {"pending", "approved"}
        /\ s <= leave_requests[i].end_date
        /\ leave_requests[i].start_date <= t

\* Handler p takes its overlap step for a submission.
ChecksOverlap(p) ==
    /\ handler[p].op = "applyForLeave"
    /\ handler[p].pc = "overlap"
    /\ handler'[p] # handler[p]

\* C4: cancelling a request whose status is approved sets its status to
\* rejected and increases the owner's balance by exactly its days_requested.
C4_CancelApprovedCredits ==
    [][ \A p \in Procs :
          (/\ Writes(p, "cancelLeaveRequest")
           /\ response'.kind = "ok"
           /\ leave_requests[handler[p].id].status = "approved")
          => LET row == leave_requests[handler[p].id]
             IN /\ leave_requests'[handler[p].id].status = "rejected"
                /\ leave_balance'[row.employee_id]
                      = leave_balance[row.employee_id] + row.days_requested ]_vars

\* C5: an approval of a pending request whose days_requested exceed the
\* employee's balance at that moment fails with InsufficientBalance, and the
\* request stays pending and the balance unchanged.
C5_ApprovalRechecksBalance ==
    [][ \A id \in 1..MaxRequests :
          (/\ Approves(id)
           /\ leave_requests[id].days_requested
                 > leave_balance[leave_requests[id].employee_id])
          => /\ response'.kind = "InsufficientBalance"
             /\ leave_requests' = leave_requests
             /\ leave_balance' = leave_balance ]_vars

\* C6: a successful approval of a pending request sets its status to approved,
\* records the resolver in approved_by and decreases the owner's balance by
\* exactly days_requested (to 0 when they are equal).
C6_ApprovalDebits ==
    [][ \A id \in 1..MaxRequests :
          (Approves(id) /\ response'.kind = "ok")
          => LET row == leave_requests[id]
             IN /\ leave_requests'[id].status = "approved"
                /\ leave_requests'[id].approved_by \in Employees
                /\ \A p \in Procs : Writes(p, "approveRejectLeave")
                      => leave_requests'[id].approved_by = handler[p].approved_by
                /\ leave_balance'[row.employee_id]
                      = leave_balance[row.employee_id] - row.days_requested ]_vars

\* The resolve of request id is refused: InvalidTransition carrying the status
\* the request has, and the request, the balance and the audit trail unchanged.
Refused(id) ==
    /\ response'.kind = "InvalidTransition"
    /\ response'.current_status = leave_requests[id].status
    /\ UNCHANGED db

\* C7: a resolve (approve or reject, by the HTTP handler or by a stored
\* function) of a request that is not pending fails with InvalidTransition
\* carrying the current status and changes neither the request nor the balance
\* nor the audit trail.
C7_ResolveNeedsPending ==
    [][ \A id \in 1..MaxRequests :
          (id \in RequestIds /\ leave_requests[id].status # "pending")
          => /\ \A p \in Procs, body \in ResolveBodies :
                   (/\ body.status \in {"approved", "rejected"}
                    /\ body.approved_by # Absent
                    /\ approveRejectLeave(p, id, body))
                   => Refused(id)
             /\ \A a \in SqlArgs :
                   (\/ approve_leave_request(id, a.by, a.comments)
                    \/ reject_leave_request(id, a.by, a.comments))
                   => Refused(id) ]_vars

\* C7 witness: a second approval of an approved request has been refused.
C7_Witness ==
    /\ response.op = "approveRejectLeave"
    /\ response.kind = "InvalidTransition"
    /\ response.current_status = "approved"
    /\ leave_requests[response.id].status = "approved"

\* The responses to a submission whose fields are not valid.
ValidationErrors ==
    {"MissingField", "InvalidDate", "DateOrderInvalid", "PastDate", "EmployeeNotFound"}

\* C8 as stated: every submission (with valid fields) whose range intersects a
\* pending or approved request of the same employee is answered with
\* OverlapConflict and persists nothing.
C8_OverlapAlwaysConflict ==
    [][ (/\ response'.op = "applyForLeave"
         /\ response'.kind \notin ValidationErrors
         /\ Intersects(response'.employee_id, response'.start_date,
                       response'.end_date))
        => (response'.kind = "OverlapConflict" /\ leave_requests' = leave_requests) ]_vars

\* C8 amended: a submission that passed validation and the balance check and
\* whose range intersects a pending or approved request of the same employee
\* stored when the overlap check runs is answered with OverlapConflict and
\* persists nothing.
C8_OverlapConflictAtCheck ==
    [][ \A p \in Procs :
          (/\ ChecksOverlap(p)
           /\ Intersects(handler[p].employee_id, handler[p].start_date,
                         handler[p].end_date))
          => /\ response'.kind = "OverlapConflict"
             /\ handler'[p] = Idle
             /\ UNCHANGED db ]_vars

\* C8 witness: a submission was answered with OverlapConflict and its range
\* intersects a stored pending or approved request of the employee.
C8_Witness ==
    /\ response.op = "applyForLeave"
    /\ response.kind = "OverlapConflict"
    /\ Intersects(response.employee_id, response.start_date, response.end_date)

\* C9: a submission with valid fields and sufficient balance whose range
\* intersects no pending or approved request of the employee passes the
\* overlap check and goes on to be persisted.
C9_DisjointSubmissionAccepted ==
    [][ \A p \in Procs :
          (/\ ChecksOverlap(p)
           /\ ~Intersects(handler[p].employee_id, handler[p].start_date,
                          handler[p].end_date))
          => handler'[p].pc = "insert" ]_vars

\* C10: no employee has two distinct pending or approved requests whose date
\* ranges overlap.
C10_NoDoubleBooking ==
    \A i, j \in RequestIds :
        (/\ i # j
         /\ leave_requests[i].employee_id = leave_requests[j].employee_id
         /\ leave_requests[i].status \in {"pending", "approved"}
         /\ leave_requests[j].status \in {"pending", "approved"})
        => \/ leave_requests[i].end_date < leave_requests[j].start_date
           \/ leave_requests[j].end_date < leave_requests[i].start_date

\* Rows i and j are two requests of one employee whose closed date ranges
\* intersect.
DoubleBooked(i, j) ==
    /\ i # j
    /\ leave_requests[i].employee_id = leave_requests[j].employee_id
    /\ leave_requests[i].start_date <= leave_requests[j].end_date
    /\ leave_requests[j].start_date <= leave_requests[i].end_date

\* C11: submission is not serialised per employee: a submission that has
\* passed the balance check, the overlap check and the trigger of its INSERT
\* is stored as pending whatever was committed meanwhile, so two concurrent
\* submissions with overlapping ranges that both passed them before either
\* was persisted are both stored as pending.
C11_SubmissionNotSerialized ==
    [][ \A p \in Procs :
          (/\ handler[p].op = "applyForLeave"
           /\ handler[p].pc = "commit"
           /\ handler'[p] # handler[p])
          => /\ leave_requests' = Append(leave_requests, leaveData(handler[p]))
             /\ leaveData(handler[p]).status = "pending"
             /\ response'.kind = "ok" ]_vars

\* C11 witness: the second of two submissions of one employee with
\* intersecting ranges has just been stored, and both are pending.
C11_Witness ==
    /\ response.op = "applyForLeave"
    /\ response.kind = "ok"
    /\ response.id = 2
    /\ Len(leave_requests) = 2
    /\ DoubleBooked(1, 2)
    /\ leave_requests[1].status = "pending"
    /\ leave_requests[2].status = "pending"

\* C12: in every state the days_requested of every request is the number of
\* Monday-to-Friday days of its current [start_date, end_date].
C12_DaysRequestedCurrent ==
    \A i \in RequestIds :
        leave_requests[i].days_requested
           = calculateBusinessDays(leave_requests[i].start_date,
                                   leave_requests[i].end_date)

\* C13: a modify of a pending request leaves every balance unchanged and the
\* request pending, and an approval of a pending request debits exactly the
\* business days of the range the request has then (the modified range when it
\* was modified).
C13_ModifyThenApproveDebitsNewDays ==
    [][ /\ \A p \in Procs :
             (/\ Writes(p, "modifyLeaveRequest")
              /\ response'.kind = "ok"
              /\ leave_requests[handler[p].id].status = "pending")
             => /\ leave_balance' = leave_balance
                /\ leave_requests'[handler[p].id].status = "pending"
        /\ \A id \in 1..MaxRequests :
             (Approves(id) /\ response'.kind = "ok")
             => LET row == leave_requests[id]
                IN leave_balance'[row.employee_id]
                      = leave_balance[row.employee_id]
                        - calculateBusinessDays(row.start_date, row.end_date) ]_vars

\* C14: a successful rejection of a pending request, by the HTTP handler or
\* by reject_leave_request, sets its status to rejected and approved_by to
\* the rejecter, and changes no balance and no row of the audit trail.
C14_RejectLeavesLedger ==
    [][ \A id \in 1..MaxRequests :
          (/\ id \in RequestIds
           /\ leave_requests[id].status = "pending"
           /\ response'.kind = "ok")
          => /\ \A p \in Procs :
                   (/\ Writes(p, "approveRejectLeave")
                    /\ handler[p].id = id
                    /\ handler[p].status = "rejected")
                   => /\ leave_requests'[id].status = "rejected"
                      /\ leave_requests'[id].approved_by = handler[p].approved_by
                      /\ UNCHANGED <<leave_balance, leave_balance_audit>>
             /\ \A a \in SqlArgs :
                   reject_leave_request(id, a.by, a.comments)
                   => /\ leave_requests'[id].status = "rejected"
                      /\ leave_requests'[id].approved_by = a.by
                      /\ UNCHANGED <<leave_balance, leave_balance_audit>> ]_vars

\* C14 witness: a request was submitted and then rejected by the manager; the
\* balances are the initial ones and the audit trail is empty.
C14_Witness ==
    /\ calls = 2
    /\ response.op \in {"approveRejectLeave", "reject_leave_request"}
    /\ response.kind = "ok"
    /\ leave_requests[response.id].status = "rejected"
    /\ leave_requests[response.id].approved_by = NumEmployees
    /\ leave_balance = initial_balance
    /\ leave_balance_audit = << >>

\* C15: a successful cancel of a pending request sets its status to rejected
\* and leaves every balance unchanged.
C15_CancelPendingKeepsBalance ==
    [][ \A p \in Procs :
          (/\ Writes(p, "cancelLeaveRequest")
           /\ response'.kind = "ok"
           /\ leave_requests[handler[p].id].status = "pending")
          => /\ leave_requests'[handler[p].id].status = "rejected"
             /\ leave_balance' = leave_balance ]_vars

\* C15 witness: a request was submitted and then cancelled while pending.
C15_Witness ==
    /\ calls = 2
    /\ response.op = "cancelLeaveRequest"
    /\ response.kind = "ok"
    /\ leave_requests[response.id].status = "rejected"
    /\ leave_balance = initial_balance

\* C16 as stated: every cancel attempted on a request whose status is
\* rejected fails with InvalidTransition carrying the current status and
\* changes neither the request nor the balance.
C16_CancelRejectedRefused ==
    [][ \A id \in 1..MaxRequests :
          (id \in RequestIds /\ leave_requests[id].status = "rejected")
          => \A p \in Procs, body \in CancelBodies :
                cancelLeaveRequest(p, id, body) => Refused(id) ]_vars

\* C16 amended: a cancel attempted on a request whose status is rejected, by
\* its owner or without an employee_id, fails with InvalidTransition carrying
\* the current status and changes neither the request nor the balance; with
\* an employee_id that is not the owner's it fails with OwnershipMismatch and
\* changes nothing either.
C16_CancelRejectedRefusedForOwner ==
    [][ \A id \in 1..MaxRequests :
          (id \in RequestIds /\ leave_requests[id].status = "rejected")
          => \A p \in Procs, body \in CancelBodies :
                cancelLeaveRequest(p, id, body)
                => IF body.employee_id \in {Absent, leave_requests[id].employee_id}
                     THEN Refused(id)
                     ELSE response'.kind = "OwnershipMismatch" /\ UNCHANGED db ]_vars

\* C16 witness: the cancel of a rejected request has been refused.
C16_Witness ==
    /\ response.op = "cancelLeaveRequest"
    /\ response.kind = "InvalidTransition"
    /\ response.current_status = "rejected"
    /\ leave_requests[response.id].status = "rejected"

\* The fields of a submission are valid and its employee exists.
ValidSubmission(body) ==
    /\ body.employee_id # Absent /\ body.start_date # Absent
    /\ body.end_date # Absent /\ body.type # NoType
    /\ isValidDate(body.start_date) /\ isValidDate(body.end_date)
    /\ body.start_date <= body.end_date
    /\ body.start_date >= Today
    /\ employeeExists(body.employee_id)

\* C17: a valid submission whose business days exceed the employee's balance
\* is answered with InsufficientBalance carrying that balance and the
\* requested days, and nothing is persisted; so with a balance of 0 every
\* submission of at least 1 business day is rejected this way.
C17_SubmissionOverBalanceRejected ==
    [][ \A p \in Procs, body \in ApplyBodies :
          (/\ ValidSubmission(body)
           /\ applyForLeave(p, body)
           /\ calculateBusinessDays(body.start_date, body.end_date)
                 > leave_balance[body.employee_id])
          => /\ response'.kind = "InsufficientBalance"
             /\ response'.current_balance = leave_balance[body.employee_id]
             /\ response'.requested_days
                   = calculateBusinessDays(body.start_date, body.end_date)
             /\ handler'[p] = Idle
             /\ UNCHANGED db ]_vars

\* C17 witness: an approval brought the balance of an employee to 0, and a
\* later submission of that employee was rejected with
\* InsufficientBalance{current: 0, requested >= 1}.
C17_Witness ==
    /\ response.op = "applyForLeave"
    /\ response.kind = "InsufficientBalance"
    /\ response.current_balance = 0
    /\ response.requested_days >= 1
    /\ leave_balance[response.employee_id] = 0
    /\ \E k \in 1..Len(leave_balance_audit) :
          /\ leave_balance_audit[k].employee_id = response.employee_id
          /\ leave_balance_audit[k].new_balance = 0

\* The audit trail holds a debit for request id.
Debited(id) ==
    \E k \in 1..Len(leave_balance_audit) :
        leave_balance_audit[k].leave_request_id = id

\* C18: no state has a request marked approved whose debit has not been
\* applied, or a debit applied for a request that is still pending.
C18_ApprovalNeverTorn ==
    \A i \in RequestIds :
        /\ leave_requests[i].status = "approved" => Debited(i)
        /\ Debited(i) => leave_requests[i].status # "pending"

\* C19: an approval or a cancellation that fails, whichever of its writes
\* fails, leaves every request, every balance and the audit trail exactly as
\* they were before it.
C19_FailedApprovalChangesNothing ==
    [][ (/\ response'.op \in {"approve_leave_request", "approveRejectLeave",
                               "cancelLeaveRequest"}
         /\ response'.kind \notin {"none", "ok"})
        => UNCHANGED db ]_vars

\* C19 witness: approve_leave_request passed its balance update and failed in
\* its status UPDATE; the request is still pending, the balance still covers
\* it and no debit is recorded.
C19_Witness ==
    /\ response.op = "approve_leave_request"
    /\ response.kind = "PersistenceError"
    /\ leave_requests[response.id].status = "pending"
    /\ leave_requests[response.id].days_requested
          <= leave_balance[leave_requests[response.id].employee_id]
    /\ leave_balance = initial_balance
    /\ leave_balance_audit = << >>

\* C20: a modify attempted on a request whose status is approved or rejected
\* fails with InvalidTransition and changes no field of the request (nor
\* anything else that is stored).
C20_ModifyNeedsPending ==
    [][ \A id \in 1..MaxRequests :
          (id \in RequestIds /\ leave_requests[id].status \in {"approved", "rejected"})
          => \A p \in Procs, body \in ModifyBodies :
                modifyLeaveRequest(p, id, body) => Refused(id) ]_vars

\* C20 witness: the modify of an approved request has been refused.
C20_Witness ==
    /\ response.op = "modifyLeaveRequest"
    /\ response.kind = "InvalidTransition"
    /\ response.current_status = "approved"
    /\ leave_requests[response.id].status = "approved"

\* C21: every step that touches a balance or the audit trail is a debit by
\* update_leave_balance_atomic: it changes the balance of one employee and
\* appends exactly one audit entry, whose previous_balance is the balance
\* before the step, whose balance_change is minus the days of the request it
\* names and whose new_balance is previous_balance + balance_change and is the
\* balance after the step; a step that appends no entry changes no balance, so
\* no entry is ever modified or removed.
C21_OneAuditEntryPerBalanceChange ==
    [][ IF leave_balance_audit' = leave_balance_audit
          THEN leave_balance' = leave_balance
          ELSE LET entry == leave_balance_audit'[Len(leave_balance_audit) + 1]
                   e == entry.employee_id
               IN /\ Len(leave_balance_audit') = Len(leave_balance_audit) + 1
                  /\ leave_balance_audit' = Append(leave_balance_audit, entry)
                  /\ e \in Employees
                  /\ entry.previous_balance = leave_balance[e]
                  /\ entry.balance_change
                        = 0 - leave_requests[entry.leave_request_id].days_requested
                  /\ entry.new_balance = entry.previous_balance + entry.balance_change
                  /\ leave_balance' = [leave_balance EXCEPT ![e] = entry.new_balance] ]_vars

\* C21 witness: an approval has debited a balance and the audit trail holds
\* its one entry, with delta = -days_requested.
C21_Witness ==
    /\ response.op = "approve_leave_request"
    /\ response.kind = "ok"
    /\ Len(leave_balance_audit) = 1
    /\ leave_balance_audit[1].leave_request_id = response.id
    /\ leave_balance_audit[1].balance_change
          = 0 - leave_requests[response.id].days_requested
    /\ leave_balance_audit[1].balance_change < 0
    /\ leave_balance[leave_balance_audit[1].employee_id]
          = leave_balance_audit[1].new_balance

\* The body of a cancel or modify call names an employee who is not the owner
\* of request id.
NotOwner(id, body) ==
    /\ id \in RequestIds
    /\ body.employee_id # Absent
    /\ body.employee_id # leave_requests[id].employee_id

\* C22 as stated: a cancel or modify call whose employee_id differs from the
\* request's employee_id answers OwnershipMismatch and changes nothing; a call
\* without an employee_id never answers OwnershipMismatch.
C22_ForeignCallerRefused ==
    [][ /\ \A p \in Procs, id \in RequestIds :
            /\ \A body \in {b \in CancelBodies : NotOwner(id, b)} :
                  cancelLeaveRequest(p, id, body) =>
                    response'.kind = "OwnershipMismatch" /\ UNCHANGED db
            /\ \A body \in {b \in ModifyBodies : NotOwner(id, b)} :
                  modifyLeaveRequest(p, id, body) =>
                    response'.kind = "OwnershipMismatch" /\ UNCHANGED db
        /\ response'.kind = "OwnershipMismatch" => response'.employee_id # Absent ]_vars

\* C22 amended: a cancel by another employee answers OwnershipMismatch whatever
\* the status; a modify by another employee answers OwnershipMismatch when the
\* request is pending and InvalidTransition with the current status when it is
\* not; neither changes the request, the balance or the audit trail, and a call
\* without an employee_id never answers OwnershipMismatch.
C22_ForeignCallerRefusedAfterStatus ==
    [][ /\ \A p \in Procs, id \in RequestIds :
            /\ \A body \in {b \in CancelBodies : NotOwner(id, b)} :
                  cancelLeaveRequest(p, id, body) =>
                    response'.kind = "OwnershipMismatch" /\ UNCHANGED db
            /\ \A body \in {b \in ModifyBodies : NotOwner(id, b)} :
                  modifyLeaveRequest(p, id, body) =>
                    /\ UNCHANGED db
                    /\ IF leave_requests[id].status = "pending"
                         THEN response'.kind = "OwnershipMismatch"
                         ELSE /\ response'.kind = "InvalidTransition"
                              /\ response'.current_status = leave_requests[id].status
        /\ response'.kind = "OwnershipMismatch" => response'.employee_id # Absent ]_vars

\* C22 witness: a cancel naming another employee has been refused on an
\* approved request, which is still approved.
C22_Witness ==
    /\ response.op = "cancelLeaveRequest"
    /\ response.kind = "OwnershipMismatch"
    /\ response.id \in RequestIds
    /\ response.employee_id # leave_requests[response.id].employee_id
    /\ leave_requests[response.id].status = "approved"

\* C23: only pending requests can be cancelled: a cancel call on a request
\* whose status is approved is answered with an error (InvalidTransition, or
\* OwnershipMismatch for a foreign caller) and writes nothing, and no write of
\* a cancel changes the status of an approved request.
C23_CancelApprovedRefused ==
    [][ \A p \in Procs :
          /\ \A id \in RequestIds, body \in CancelBodies :
                (/\ leave_requests[id].status = "approved"
                 /\ cancelLeaveRequest(p, id, body))
                => /\ response'.kind \in {"InvalidTransition", "OwnershipMismatch"}
                   /\ UNCHANGED db
          /\ (/\ Writes(p, "cancelLeaveRequest")
               /\ leave_requests[handler[p].id].status = "approved")
              => leave_requests'[handler[p].id].status = "approved" ]_vars

\* Request id was approved and debited and has since been cancelled: its
\* status is rejected and approved_by names its owner.
CancelledAfterApproval(id) ==
    /\ Debited(id)
    /\ leave_requests[id].status = "rejected"
    /\ leave_requests[id].approved_by = leave_requests[id].employee_id

\* Cancels p and q of the same approved and debited request have both passed
\* the status check.
BothCancelsPastCheck(p, q) ==
    /\ p # q
    /\ handler[p].op = "cancelLeaveRequest" /\ handler[p].pc = "update"
    /\ handler[q].op = "cancelLeaveRequest" /\ handler[q].pc = "update"
    /\ handler[p].id = handler[q].id
    /\ leave_requests[handler[p].id].status = "approved"
    /\ Debited(handler[p].id)

\* C24: of two cancels that run concurrently on the same approved request
\* exactly one succeeds: the one that writes first credits days_requested to
\* the owner's balance, and the write of a cancel that finds the request
\* already cancelled answers InvalidTransition and changes nothing, so the
\* balance is credited once.
C24_OneConcurrentCancelWins ==
    [][ \A p \in Procs :
          /\ \A q \in Procs :
                (/\ BothCancelsPastCheck(p, q)
                 /\ Writes(p, "cancelLeaveRequest")
                 /\ response'.kind = "ok")
                => LET row == leave_requests[handler[p].id]
                   IN /\ leave_requests'[handler[p].id].status = "rejected"
                      /\ leave_balance'[row.employee_id]
                            = leave_balance[row.employee_id] + row.days_requested
          /\ (/\ Writes(p, "cancelLeaveRequest")
               /\ CancelledAfterApproval(handler[p].id))
              => Refused(handler[p].id) ]_vars

\* The errors an operation answers after a check of its input or of the
\* stored state: validation, not-found, ownership, overlap, insufficient
\* balance and invalid transition.
RefusalKinds ==
    ValidationErrors \cup
    {"InvalidStatus", "NoChanges", "RequestNotFound", "ResolverNotFound",
     "OwnershipMismatch", "OverlapConflict", "InsufficientBalance",
     "InvalidTransition"}

\* C25: a step that answers one of these errors, and every step of an
\* operation before its answer, leaves the requests, their fields, the
\* balances and the audit trail as they are: an operation that returns an
\* error has written nothing.
C25_ErrorsChangeNothing ==
    [][ response'.kind \in RefusalKinds \cup {"none"} => UNCHANGED db ]_vars

\* C25 witness: a submission has been answered with an overlap error and the
\* stored requests are the one it overlaps, no more.
C25_Witness ==
    /\ response.op = "applyForLeave"
    /\ response.kind = "OverlapConflict"
    /\ Len(leave_requests) = 1
    /\ Intersects(response.employee_id, response.start_date, response.end_date)

\* The fifth argument cancelLeaveRequest passes to updateLeaveStatus when the
\* call gives no reason.
CancellationNote == "Cancelled by employee"

\* C27: after a successful cancellation the comments of the request hold the
\* cancellation note.
C27_CancelWritesNote ==
    [][ \A p \in Procs :
          (Writes(p, "cancelLeaveRequest") /\ response'.kind = "ok")
          => leave_requests'[handler[p].id].comments = CancellationNote ]_vars

\* C28: a submission that passes the field, date and employee checks but
\* whose range holds no business day is answered with a validation error at
\* once and writes nothing, and no request with days_requested = 0 is ever
\* persisted.
C28_ZeroDaySubmissionRejected ==
    [][ /\ \A p \in Procs, body \in ApplyBodies :
            (/\ ValidSubmission(body)
             /\ calculateBusinessDays(body.start_date, body.end_date) = 0
             /\ applyForLeave(p, body))
            => /\ response'.kind \notin {"none", "ok"}
               /\ handler'[p] = Idle
               /\ UNCHANGED db
        /\ \A id \in DOMAIN leave_requests' :
            id \notin RequestIds => leave_requests'[id].days_requested > 0 ]_vars

\* The new days of the date-changing modify p is running exceed the balance
\* of the owner plus the days the request held when the modify read it.
OverHeadroom(p) ==
    calculateBusinessDays(handler[p].start_date, handler[p].end_date)
      > leave_balance[handler[p].l_employee_id] + handler[p].l_days

\* Modify p has changed the dates of a pending request and passed the
\* validation of its body; its overlap or balance check is next.
ModifyChecking(p) ==
    /\ handler[p].op = "modifyLeaveRequest"
    /\ handler[p].pc \in {"overlap", "balance"}

Weekdays(start, end) ==
    Cardinality({d \in start..end : getDay(d) \in 1..5})

\* C29: for valid dates start <= end every business-day count is the number
\* of days of start..end whose weekday is Monday to Friday, no day left out
\* for being a holiday: 1 for a single weekday, 0 for a single Saturday or
\* Sunday.
C29_CountIsWeekdaysInRange ==
    calc.fn # "none" => calc.businessDays = Weekdays(calc.startDate, calc.endDate)

\* C29 for a server at or east of UTC and the counter of the handlers:
\* dateUtils.calculateBusinessDays counts the weekdays of the range.
C29_DateUtilsEastOfUTC ==
    (calc.fn = "dateUtils.calculateBusinessDays" /\ calc.utcOffset >= 0)
    => calc.businessDays = Weekdays(calc.startDate, calc.endDate)

\* C26 as stated: no interleaving of concurrent operations deadlocks: no
\* session ever waits for a lock in a cycle of waiting sessions.
C26_NoDeadlock ==
    \A s \in Procs : tx[s].pc # "idle" => ~Deadlocked(s)

\* C26, its completion half: under fair scheduling every started transaction
\* ends, with a success or an error.
C26_EveryCallCompletes ==
    \A s \in Procs : (tx[s].pc # "idle") ~> (tx[s].pc = "idle")

\* Two approvals wait for each other: each holds the employees row of the
\* owner of its request and needs the row of its approver.
C26_CrossedApprovals ==
    \E s, t \in Procs :
      /\ s # t
      /\ tx[s].op = "approve_leave_request" /\ tx[t].op = "approve_leave_request"
      /\ t \in Blockers(s) /\ s \in Blockers(t)

\* The range s..t intersects a pending or approved request of employee e
\* other than request id.
IntersectsOther(id, e, s, t) ==
    \E i \in RequestIds \ {id} :
        /\ leave_requests[i].employee_id = e
        /\ leave_requests[i].status \in {"pending", "approved"}
        /\ s <= leave_requests[i].end_date
        /\ t >= leave_requests[i].start_date

\* C31: the overlap check of a date-changing modify answers OverlapConflict,
\* writing nothing, exactly when the new range intersects another pending or
\* approved request of the owner; a range that intersects no request but the
\* one being edited passes the check.
C31_ModifyOverlapExcludesSelf ==
    [][ \A p \in Procs :
          modifyOverlap(p) =>
            LET h == handler[p]
            IN IF IntersectsOther(h.id, h.l_employee_id, h.start_date, h.end_date)
                 THEN /\ response'.kind = "OverlapConflict"
                      /\ handler'[p] = Idle
                      /\ UNCHANGED db
                 ELSE /\ response'.kind = "none"
                      /\ handler'[p].pc = "balance" ]_vars

\* Employee e has no pending or approved request: every request of e has
\* been rejected or cancelled.
NoActiveRequest(e) ==
    \A i \in RequestIds :
        leave_requests[i].employee_id = e => leave_requests[i].status = "rejected"

C33_UnknownResolverRefused ==
    [][ \A id \in RequestIds :
          leave_requests[id].status = "pending" =>
            /\ \A p \in Procs :
                \A body \in {b \in ResolveBodies :
                                /\ b.status \in {"approved", "rejected"}
                                /\ b.approved_by # Absent
                                /\ b.approved_by \notin Employees} :
                   approveRejectLeave(p, id, body)
                   => /\ response'.kind = "ResolverNotFound"
                      /\ handler'[p] = Idle
                      /\ UNCHANGED db
            /\ \A a \in {b \in SqlArgs : b.by \notin Employees} :
                   (\/ approve_leave_request(id, a.by, a.comments)
                    \/ reject_leave_request(id, a.by, a.comments))
                   => /\ response'.kind = "ResolverNotFound"
                      /\ UNCHANGED db ]_vars

\* C33 witness: an approval by an unknown resolver has been refused; the
\* request is pending and no balance has changed.
C33_Witness ==
    /\ response.op = "approveRejectLeave"
    /\ response.kind = "ResolverNotFound"
    /\ leave_requests[response.id].status = "pending"
    /\ leave_balance = initial_balance
    /\ leave_balance_audit = << >>

\* The sum of balance_change over the first n audit entries of employee e.
RECURSIVE AuditSumUpTo(_, _)
AuditSumUpTo(e, n) ==
    IF n = 0 THEN 0
    ELSE AuditSumUpTo(e, n - 1)
         + (IF leave_balance_audit[n].employee_id = e
            THEN leave_balance_audit[n].balance_change ELSE 0)

AuditSum(e) == AuditSumUpTo(e, Len(leave_balance_audit))

\* C34: in every reachable state the balance of each employee is the initial
\* balance plus the sum of the balance_change of the audit entries recorded
\* for that employee.
C34_BalanceReconstructible ==
    \A e \in Employees : leave_balance[e] = initial_balance[e] + AuditSum(e)

\* C34 witness: two approvals have debited the same employee, whose balance
\* is the initial balance less the two audited changes.
C34_Witness ==
    /\ Len(leave_balance_audit) = 2
    /\ leave_balance_audit[1].employee_id = leave_balance_audit[2].employee_id
    /\ leave_balance_audit[1].balance_change < 0
    /\ leave_balance_audit[2].balance_change < 0
    /\ leave_balance[leave_balance_audit[1].employee_id]
          = initial_balance[leave_balance_audit[1].employee_id] - 2

\* C35: in every reachable state the balance of each employee is the initial
\* balance less the days_requested of the employee's approved requests;
\* pending and rejected requests contribute nothing.
C35_BalanceIsInitialLessApproved ==
    \A e \in Employees : leave_balance[e] = initial_balance[e] - ApprovedDays(e)

\* C36: the status of a request changes only from pending to approved, from
\* pending to rejected and from approved to rejected, and no request is ever
\* removed: a rejected request keeps its status and none returns to pending.
C36_OnlyLifecycleTransitions ==
    [][ /\ Len(leave_requests') >= Len(leave_requests)
        /\ \A id \in RequestIds :
              \/ leave_requests'[id].status = leave_requests[id].status
              \/ <<leave_requests[id].status, leave_requests'[id].status>>
                    \in { <<"pending", "approved">>, <<"pending", "rejected">>,
                          <<"approved", "rejected">> } ]_vars

\* The fields of request id that a modification can write.
RequestFields(rows, id) ==
    <<rows[id].employee_id, rows[id].start_date, rows[id].end_date,
      rows[id].type, rows[id].days_requested>>

\* C37: a modify racing with a resolve behaves as if the two ran in some
\* order: once a request has left pending its fields never change, and the
\* days_requested of an approved request equal the amount debited for it.
C37_ModifySerializesWithResolve ==
    [][ \A id \in RequestIds :
          /\ leave_requests[id].status # "pending"
               => RequestFields(leave_requests', id) = RequestFields(leave_requests, id)
          /\ leave_requests'[id].status = "approved"
               => \A k \in 1..Len(leave_balance_audit') :
                     leave_balance_audit'[k].leave_request_id = id
                       => leave_balance_audit'[k].balance_change
                            = 0 - leave_requests'[id].days_requested ]_vars

\* Employee b's balance, requests or audit entries differ after the step.
Affected(b) ==
    \/ leave_balance'[b] # leave_balance[b]
    \/ Len(leave_requests') < Len(leave_requests)
    \/ Len(leave_balance_audit') < Len(leave_balance_audit)
    \/ \E i \in 1..Len(leave_requests') :
          /\ i > Len(leave_requests) \/ leave_requests'[i] # leave_requests[i]
          /\ \/ leave_requests'[i].employee_id = b
             \/ i <= Len(leave_requests) /\ leave_requests[i].employee_id = b
    \/ \E k \in 1..Len(leave_balance_audit') :
          /\ k > Len(leave_balance_audit)
             \/ leave_balance_audit'[k] # leave_balance_audit[k]
          /\ \/ leave_balance_audit'[k].employee_id = b
             \/ k <= Len(leave_balance_audit) /\ leave_balance_audit[k].employee_id = b

\* The employee whose request the running handler p works on.
StepOwner(p) ==
    IF handler[p].op = "applyForLeave" THEN handler[p].employee_id
    ELSE leave_requests[handler[p].id].employee_id

\* Handler p takes a step from position pc of operation op.
Steps(p, op, pc) ==
    /\ handler[p].op = op
    /\ handler[p].pc = pc
    /\ handler'[p] # handler[p]

\* The requests of employee e, request ex left out.
OwnRows(e, ex) == { i \in RequestIds \ {ex} : leave_requests[i].employee_id = e }

\* The overlap query, evaluated on the requests of employee e alone.
OwnQueryConflict(e, s, t, ex) ==
    \E i \in OwnRows(e, ex) :
        /\ leave_requests[i].status \in Active
        /\ leave_requests[i].start_date <= t \/ leave_requests[i].end_date >= s

\* The trigger's test, evaluated on the requests of employee e alone.
OwnTriggerConflict(e, s, t, ex) ==
    \E i \in OwnRows(e, ex) :
        /\ leave_requests[i].status \in Active
        /\ s <= leave_requests[i].end_date /\ t >= leave_requests[i].start_date

\* C38: a step of an operation on a request of employee A leaves the balance,
\* the requests and the audit entries of every other employee as they were,
\* and each of its decisions is the one that A's own requests and A's own
\* balance determine.
C38_OperationsTouchOnlyTheOwner ==
    [][ /\ \A p \in Procs :
             /\ (handler[p].pc # "idle" /\ handler'[p] # handler[p])
                  => \A b \in Employees \ {StepOwner(p)} : ~Affected(b)
             /\ (handler[p].pc = "idle" /\ handler'[p] # handler[p])
                  => \A b \in Employees : ~Affected(b)
             /\ (handler[p].pc = "idle" /\ handler'[p].op = "applyForLeave")
                  => handler'[p].newDays <= leave_balance[handler'[p].employee_id]
             /\ Steps(p, "applyForLeave", "overlap")
                  => LET h == handler[p]
                     IN (response'.kind = "OverlapConflict")
                          <=> OwnQueryConflict(h.employee_id, h.start_date, h.end_date, Absent)
             /\ Steps(p, "applyForLeave", "insert")
                  => LET h == handler[p]
                     IN (response'.kind = "PersistenceError")
                          <=> OwnTriggerConflict(h.employee_id, h.start_date, h.end_date, Absent)
             /\ Steps(p, "modifyLeaveRequest", "overlap")
                  => LET h == handler[p]
                     IN (response'.kind = "OverlapConflict")
                          <=> OwnQueryConflict(StepOwner(p), h.start_date, h.end_date, h.id)
             /\ Steps(p, "modifyLeaveRequest", "balance")
                  => LET h == handler[p]
                     IN (response'.kind = "InsufficientBalance")
                          <=> calculateBusinessDays(h.start_date, h.end_date)
                                > leave_balance[StepOwner(p)] + h.l_days
        /\ (handler' = handler /\ response'.kind # "none")
             => IF response'.op \in {"approve_leave_request", "reject_leave_request"}
                   /\ response'.id \in RequestIds
                  THEN LET row == leave_requests[response'.id]
                       IN /\ \A b \in Employees \ {row.employee_id} : ~Affected(b)
                          /\ response'.kind = "InsufficientBalance"
                               => row.days_requested > leave_balance[row.employee_id]
                          /\ (response'.kind = "ok" /\ response'.op = "approve_leave_request")
                               => row.days_requested <= leave_balance[row.employee_id]
                ELSE /\ \A b \in Employees : ~Affected(b)
                     /\ (response'.op = "applyForLeave"
                         /\ response'.kind = "InsufficientBalance")
                          => response'.requested_days > leave_balance[response'.employee_id] ]_vars

\* The manager holds a request for today, and employee 1's request for the
\* same day was stored, approved and debited while the manager's balance and
\* request stayed as they were.
C38_Witness ==
    \E i, j \in RequestIds :
        /\ leave_requests[i].employee_id = NumEmployees
        /\ leave_requests[i].status = "pending"
        /\ leave_requests[j].employee_id = 1
        /\ leave_requests[j].status = "approved"
        /\ leave_requests[j].start_date <= leave_requests[i].end_date
        /\ leave_requests[j].end_date >= leave_requests[i].start_date
        /\ Debited(j)
        /\ leave_balance[1] < initial_balance[1]
        /\ leave_balance[NumEmployees] = initial_balance[NumEmployees]
====
